---- MODULE Spec2Model ----
(***************************************************************************)
(* Masking, head layout, positional rows and the teacher-forcing shift of  *)
(* the Transformer in src/model.py.                                        *)
(*                                                                         *)
(* Tensors are functions over 1-based index ranges: a tensor of shape      *)
(* (batch, rows, cols) is [1..batch -> [1..rows -> [1..cols -> value]]].   *)
(* Index k of the model is index k-1 of the source.  Learned weights and   *)
(* real-valued activations are not modelled; what is modelled is which     *)
(* element goes where, which positions are masked, and which calls fail.   *)
(***************************************************************************)
EXTENDS Integers, Sequences, FiniteSets, TLC

\* ------------------------------------------------------------------------
\* Bounds of the model
\* ------------------------------------------------------------------------
MaxBatch ==
  2
MaxLen ==
  2
MaxHead ==
  2
MaxHidden ==
  4
MaxTok ==
  1

\* ------------------------------------------------------------------------
\* State
\* ------------------------------------------------------------------------
VARIABLES
  pc,              \* which forward call of the layer pipeline comes next
  batch,           \* batch size of the current inputs
  src_len,         \* source sequence length
  src_mask,        \* source padding mask, batch x src_len, 1 = real, 0 = pad
  tgt_len,         \* length of the target batch the decoder input is cut from
  tgt_mask,        \* target padding mask of the whole batch, batch x tgt_len
  tg_len,          \* target length of the last Decoder.forward (0: none yet)
  prev_len,        \* target length of the Decoder.forward before that one
  tg_mask,         \* target padding mask of that call, batch x tg_len
  output_mask,     \* causal mask built by the last Decoder.forward
  enc_attn,        \* combined mask of the Encoder's self-attention call
  dec_self_attn,   \* combined mask of the Decoder's masked self-attention
  dec_cross_attn   \* combined mask of the Decoder's encoder-decoder attention

VARIABLES
  sdpa_pc,         \* "idle", "call" (inputs bound) or "done" (forward returned)
  Q,               \* query of the attention call, batch x n_head x q_len
  K,               \* key of the attention call, batch x n_head x k_len
  pad_mask,        \* pad_mask argument, batch x len, or None
  attn_mask,       \* attn_mask argument, batch x q_len x k_len, or None
  mask,            \* the combined mask the call built
  attention        \* the scores handed to softmax, batch x n_head x q x k

sdpaVars ==
  <<sdpa_pc, Q, K, pad_mask, attn_mask, mask, attention>>

VARIABLES
  mha_pc,          \* "idle", "constructed", "done", "error" or "roundtrip"
  hidden_size,     \* self.hidden_size of the MultiHeadAttention
  n_head,          \* self.n_head
  d_head,          \* self.d_head
  q_projection,    \* the projected query, batch x seq_len x hidden_size
  mh_heads,        \* mh_convert(q_projection), batch x heads x seq_len x width
  concatenated     \* the tensor handed to last_proj, batch x seq_len x hidden

mhaVars ==
  <<mha_pc, hidden_size, n_head, d_head, q_projection, mh_heads, concatenated>>

VARIABLES
  pe_pc,               \* "idle", "new", "constructed", "ctor_error", "done"
                       \* or "fwd_error"
  max_len,             \* max_len argument of PositionalEncoding
  emb_size,            \* hidden_size argument of PositionalEncoding
  positional_encoding, \* self.positional_encoding, max_len x hidden_size
  x_ids,               \* token ids given to WordEmbedding.forward
  embedded             \* what WordEmbedding.forward returned

peVars ==
  <<pe_pc, max_len, emb_size, positional_encoding, x_ids, embedded>>

VARIABLES
  pred_pc,             \* "idle", "batch" (a batch is at hand) or "done"
  pad_idx,             \* pad_idx of the Transformer
  decoder_input_ids,   \* target token ids of the batch, batch x tg_len
  batch_tg_mask,       \* target padding mask of the batch, batch x tg_len
  dec_ids,             \* the ids pred_step handed to the decoder stack
  dec_mask,            \* the padding mask it handed to the decoder stack
  logits_len,          \* number of positions of the logits y
  labels,              \* the labels handed to the loss
  loss_terms           \* the (element, position) pairs the loss counts

predVars ==
  <<pred_pc, pad_idx, decoder_input_ids, batch_tg_mask, dec_ids, dec_mask,
    logits_len, labels, loss_terms>>

layerVars ==
  <<pc, batch, src_len, src_mask, tgt_len, tgt_mask, tg_len, prev_len,
    tg_mask, output_mask, enc_attn, dec_self_attn, dec_cross_attn>>

vars ==
  <<layerVars, sdpaVars, mhaVars, peVars, predVars>>

\* The variables a component's operations leave alone.
notLayer ==
  <<sdpaVars, mhaVars, peVars, predVars>>

notSdpa ==
  <<layerVars, mhaVars, peVars, predVars>>

notMha ==
  <<layerVars, sdpaVars, peVars, predVars>>

notPe ==
  <<layerVars, sdpaVars, mhaVars, predVars>>

notPred ==
  <<layerVars, sdpaVars, mhaVars, peVars>>

\* Python's None for an optional mask argument.
None ==
  <<>>

Max(a, b) ==
  IF a >= b THEN a ELSE b

\* ------------------------------------------------------------------------
\* Tensor helpers (torch semantics)
\* ------------------------------------------------------------------------
\* torch.ones(b, r, c)
Ones(b, r, c) ==
  [n \in 1..b |-> [i \in 1..r |-> [j \in 1..c |-> 1]]]

\* torch.tril(m): keep column j of row i iff j <= i, zero elsewhere.
TrilStrict(m) ==
  [n \in DOMAIN m |-> [i \in DOMAIN m[n] |-> [j \in DOMAIN m[n][i] |->
     IF j < i THEN m[n][i][j] ELSE 0]]]

Tril(m) ==
  [n \in DOMAIN m |-> [i \in DOMAIN m[n] |-> [j \in DOMAIN m[n][i] |->
     IF j <= i THEN m[n][i][j] ELSE 0]]]

\* Shape of a (batch, rows, cols) tensor; every axis has at least one entry.
Dims(t) ==
  <<Len(t), Len(t[1]), Len(t[1][1])>>

\* Two axis sizes broadcast together iff they are equal or one of them is 1.
Compatible(x, y) ==
  x = y \/ x = 1 \/ y = 1

\* Index into an axis of size n that is broadcast: a size-1 axis repeats.
Bix(n, i) ==
  IF n = 1 THEN 1 ELSE i

\* a * b for two (batch, rows, cols) tensors, with broadcasting.  ok = FALSE
\* is the RuntimeError torch raises for shapes that do not broadcast.
BMul(a, b) ==
  LET da == Dims(a)
      db == Dims(b)
  IN IF \A k \in 1..3 : Compatible(da[k], db[k])
     THEN [ok |-> TRUE,
           val |-> [n \in 1..Max(da[1], db[1]) |->
                    [i \in 1..Max(da[2], db[2]) |->
                     [j \in 1..Max(da[3], db[3]) |->
                        a[Bix(da[1], n)][Bix(da[2], i)][Bix(da[3], j)]
                        * b[Bix(db[1], n)][Bix(db[2], i)][Bix(db[3], j)]]]]]
     ELSE [ok |-> FALSE, val |-> None]

\* Padding masks of a batch of b sequences padded to the common length len:
\* element n has k[n] real tokens followed by pad (k[n] = 0: all pad).
PadMasks(b, len) ==
  {[n \in 1..b |-> [i \in 1..len |-> IF i <= k[n] THEN 1 ELSE 0]] :
     k \in [1..b -> 0..len]}

\* pad_mask.unsqueeze(2) * pad_mask.unsqueeze(1): batch x len x len, entry
\* (i, j) is pad[i] * pad[j].
ExpandedPadMask(pad) ==
  [n \in DOMAIN pad |-> [i \in DOMAIN pad[n] |->
     [j \in DOMAIN pad[n] |-> pad[n][i] * pad[n][j]]]]

\* ------------------------------------------------------------------------
\* ScaledDotProductAttention.forward, the mask it builds (lines 83-93)
\* ------------------------------------------------------------------------
\* "if pad_mask is not None: mask = mask * expanded_pad_mask"
PadStep(m, pad) ==
  IF pad # None THEN BMul(m, ExpandedPadMask(pad))
  ELSE [ok |-> TRUE, val |-> m]

\* "if attn_mask is not None: mask = mask * attn_mask"
AttnStepIgnored(m, attn) ==
  m

AttnStep(m, attn) ==
  IF m.ok /\ attn # None THEN BMul(m.val, attn) ELSE m

CombinedMask(b, q_len, k_len, pad, attn) ==
  AttnStep(PadStep(Ones(b, q_len, k_len), pad), attn)

\* Scores are integers in units of 1e-9, so that the fill value of line 97,
\* -1e-9, is the integer -1 and a score of 1.0 is Nano.
Nano ==
  10^9

FillValue ==
  -1

\* torch.matmul(Q, K_transpose) / math.sqrt(d_k) for heads of width
\* d_head = 1, where Q and K hold one feature per position and sqrt(d_k) = 1.
Scores(q, k) ==
  [n \in DOMAIN q |-> [h \in DOMAIN q[n] |-> [i \in DOMAIN q[n][h] |->
     [j \in DOMAIN k[n][h] |-> q[n][h][i] * k[n][h][j] * Nano]]]]

\* torch.where(mask.unsqueeze(1) != 0, attention, fill): the mask has no
\* head axis and is broadcast over it (and over any size-1 axis).
MaskedFill(att, m) ==
  LET dm == Dims(m)
      da == Dims(att[1])
  IN IF Compatible(Len(att), dm[1]) /\ Compatible(da[2], dm[2])
        /\ Compatible(da[3], dm[3])
     THEN [ok |-> TRUE,
           val |-> [n \in 1..Max(Len(att), dm[1]) |-> [h \in 1..da[1] |->
                    [i \in 1..Max(da[2], dm[2]) |->
                     [j \in 1..Max(da[3], dm[3]) |->
                        IF m[Bix(dm[1], n)][Bix(dm[2], i)][Bix(dm[3], j)] # 0
                        THEN att[Bix(Len(att), n)][h][Bix(da[2], i)][Bix(da[3], j)]
                        ELSE FillValue]]]]]
     ELSE [ok |-> FALSE, val |-> None]

\* softmax(dim = -1) is strictly increasing in the score within a row: key j
\* gets at least the weight of key j2 iff its score is at least as large.
WeightGeq(row, j, j2) ==
  row[j] >= row[j2]

\* ScaledDotProductAttention.forward(Q, K, V, pad_mask, attn_mask) up to the
\* softmax input.
SDPAForward ==
  /\ sdpa_pc = "call"
  /\ LET b == Len(Q)
         q_len == Len(Q[1][1])
         k_len == Len(K[1][1])
         m == CombinedMask(b, q_len, k_len, pad_mask, attn_mask)
     IN /\ mask' = m
        /\ attention' = IF m.ok THEN MaskedFill(Scores(Q, K), m.val)
                        ELSE [ok |-> FALSE, val |-> None]
  /\ sdpa_pc' = "done"
  /\ UNCHANGED <<Q, K, pad_mask, attn_mask>>
  /\ UNCHANGED notSdpa

\* ------------------------------------------------------------------------
\* MultiHeadAttention: mh_convert and the concat step of forward
\* ------------------------------------------------------------------------
\* Number of chunks torch.split(t, size, dim) cuts an axis of n entries into:
\* chunks of `size` entries, the last one smaller when size does not divide n.
NumChunks(n, size) ==
  (n + size - 1) \div size

\* Entries of chunk c (1-based), as indices into the axis that was split.
ChunkIdx(n, size, c) ==
  {f \in 1..n : (c - 1) * size < f /\ f <= c * size}

\* torch.split(proj, size, dim=-1): the chunks of the feature axis, in
\* order; chunk c is a batch x seq_len x width tensor.
SplitLast(proj, size) ==
  LET hid == Len(proj[1][1])
  IN [c \in 1..NumChunks(hid, size) |->
       [n \in DOMAIN proj |-> [i \in DOMAIN proj[n] |->
          [d \in 1..Cardinality(ChunkIdx(hid, size, c)) |->
             proj[n][i][(c - 1) * size + d]]]]]

\* torch.stack(chunks, dim=1): needs chunks of one shape, else RuntimeError.
Stack1(chunks) ==
  IF \A c \in DOMAIN chunks : Dims(chunks[c]) = Dims(chunks[1])
  THEN [ok |-> TRUE,
        val |-> [n \in DOMAIN chunks[1] |-> [c \in DOMAIN chunks |->
                   chunks[c][n]]]]
  ELSE [ok |-> FALSE, val |-> None]

\* MultiHeadAttention.mh_convert(proj), lines 120-123.
mh_convert(proj, dh) ==
  Stack1(SplitLast(proj, dh))

\* Lines 142-143: torch.split(mh, 1, dim=1), torch.cat(..., dim=-1) and
\* squeeze(1).  Head c lands on features (c-1)*width+1 .. c*width.
ConcatReversed(mh) ==
  [n \in DOMAIN mh |-> [i \in DOMAIN mh[n][1] |->
     LET heads == Len(mh[n])
         width == Len(mh[n][1][i])
     IN [f \in 1..(heads * width) |->
           mh[n][heads - ((f - 1) \div width)][i][((f - 1) % width) + 1]]]]

Concat(mh) ==
  [n \in DOMAIN mh |-> [i \in DOMAIN mh[n][1] |->
     LET heads == Len(mh[n])
         width == Len(mh[n][1][i])
     IN [f \in 1..(heads * width) |->
           mh[n][((f - 1) \div width) + 1][i][((f - 1) % width) + 1]]]]

\* A batch x seq_len x hidden tensor whose entries are all different: entry
\* (n, i, f) is named by its own place.
Labelled(b, len, hid) ==
  [n \in 1..b |-> [i \in 1..len |-> [f \in 1..hid |-> <<n, i, f>>]]]

\* The output of dot_attention has the shape of its Q argument when Q, K and
\* V are split alike: entry (n, h, i, d) of the output is tagged with the
\* entry of the split query at that place.
AttnOut(mh) ==
  [n \in DOMAIN mh |-> [h \in DOMAIN mh[n] |-> [i \in DOMAIN mh[n][h] |->
     [d \in DOMAIN mh[n][h][i] |-> <<"attn", mh[n][h][i][d]>>]]]]

\* MultiHeadAttention.forward(Q, K, V) on a batch of b sequences of len
\* positions.  The only step that can fail is the stack of mh_convert.
MHAForward ==
  /\ mha_pc = "constructed"
  /\ \E b \in 1..MaxBatch, len \in 1..MaxLen :
       LET proj == Labelled(b, len, hidden_size)
           mh == mh_convert(proj, d_head)
       IN /\ q_projection' = proj
          /\ mh_heads' = mh
          /\ IF mh.ok
             THEN /\ concatenated' = Concat(AttnOut(mh.val))
                  /\ mha_pc' = "done"
             ELSE /\ concatenated' = None
                  /\ mha_pc' = "error"
  /\ UNCHANGED <<hidden_size, n_head, d_head>>
  /\ UNCHANGED notMha

\* mh_convert followed at once by the concat step, with no attention in
\* between, on a batch of b sequences of len positions.
HeadRoundTrip ==
  /\ mha_pc = "constructed"
  /\ \E b \in 1..MaxBatch, len \in 1..MaxLen :
       LET proj == Labelled(b, len, hidden_size)
           mh == mh_convert(proj, d_head)
       IN /\ q_projection' = proj
          /\ mh_heads' = mh
          /\ concatenated' = IF mh.ok THEN Concat(mh.val) ELSE None
          /\ mha_pc' = IF mh.ok THEN "roundtrip" ELSE "error"
  /\ UNCHANGED <<hidden_size, n_head, d_head>>
  /\ UNCHANGED notMha

\* MultiHeadAttention.__init__(hidden_size, n_head, d_head) stores its
\* arguments and builds four hidden x hidden projections; it checks nothing.
MhaInit ==
  /\ mha_pc = "constructed"
  /\ hidden_size \in 1..MaxHidden
  /\ n_head \in 1..MaxHidden
  /\ d_head \in 1..MaxHidden
  /\ q_projection = None
  /\ mh_heads = None
  /\ concatenated = None

\* No MultiHeadAttention is under test.
MhaIdle ==
  /\ mha_pc = "idle"
  /\ hidden_size = 0
  /\ n_head = 0
  /\ d_head = 0
  /\ q_projection = None
  /\ mh_heads = None
  /\ concatenated = None

\* ------------------------------------------------------------------------
\* PositionalEncoding and WordEmbedding
\* ------------------------------------------------------------------------
\* Size of the result axis when axes of sizes m and n broadcast together.
BSize(m, n) ==
  IF m = 1 THEN n ELSE m

\* torch.arange(0, hid, 2) has ceil(hid / 2) entries, and so have partial,
\* torch.sin(pos / partial) and torch.cos(pos / partial).
NumEven(hid) ==
  (hid + 1) \div 2

\* The slice [pos, 0::2] has ceil(hid / 2) places, [pos, 1::2] floor(hid / 2).
NumSlots(hid, start) ==
  IF start = 0 THEN (hid + 1) \div 2 ELSE hid \div 2

\* A slice assignment takes a value of the slice's own size, or a value of
\* one entry (broadcast, also onto an empty slice); else RuntimeError.
AssignOk(slots, vals) ==
  slots = vals \/ vals = 1

\* Row pos (0-based) of the table once lines 40-41 ran: feature f (0-based)
\* holds sin or cos of pos / 10000^(2i / hid) with i = f div 2; the values
\* are named, not computed.
TableRow(pos, hid) ==
  [f \in 1..hid |->
     IF (f - 1) % 2 = 0 THEN <<"sin", pos, (f - 1) \div 2>>
     ELSE <<"cos", pos, (f - 1) \div 2>>]

\* Lines 39-41 for one pos: both slice assignments go through.
RowOk(hid) ==
  /\ AssignOk(NumSlots(hid, 0), NumEven(hid))
  /\ AssignOk(NumSlots(hid, 1), NumEven(hid))

\* PositionalEncoding.__init__(max_len, hidden_size): the loop body runs
\* once per pos in range(max_len) and raises on the first failing assignment.
PositionalEncodingInit ==
  /\ pe_pc = "new"
  /\ IF max_len = 0 \/ RowOk(emb_size)
     THEN /\ positional_encoding'
               = [r \in 1..max_len |-> TableRow(r - 1, emb_size)]
          /\ pe_pc' = "constructed"
     ELSE /\ positional_encoding' = None
          /\ pe_pc' = "ctor_error"
  /\ UNCHANGED <<max_len, emb_size, x_ids, embedded>>
  /\ UNCHANGED notPe

Min(a, b) ==
  IF a <= b THEN a ELSE b

\* PositionalEncoding.forward(x): self.positional_encoding[:seq_len, :], the
\* first min(seq_len, max_len) rows.
PEForward(table, seq_len) ==
  [r \in 1..Min(seq_len, Len(table)) |-> table[r]]

\* Token ids of a batch.
TokenIds ==
  0..MaxTok

\* WordEmbedding.forward(x): w_embedding (batch x seq_len x hidden) plus the
\* rows of PositionalEncoding.forward (1 x rows x hidden), with
\* broadcasting.  Position p of the result pairs the token at p with the
\* table row added to its vector.
WordEmbeddingForward ==
  /\ pe_pc \in {"constructed", "done", "fwd_error"}
  /\ \E b \in 1..MaxBatch, len \in 1..MaxLen :
     \E ids \in [1..b -> [1..len -> TokenIds]] :
       LET pos == PEForward(positional_encoding, len)
           rows == Len(pos)
       IN /\ x_ids' = ids
          /\ IF Compatible(len, rows)
             THEN /\ embedded' =
                       [n \in 1..b |-> [p \in 1..BSize(len, rows) |->
                          [tok |-> ids[n][Bix(len, p)],
                           row |-> pos[Bix(rows, p)]]]]
                  /\ pe_pc' = "done"
             ELSE /\ embedded' = None
                  /\ pe_pc' = "fwd_error"
  /\ UNCHANGED <<max_len, emb_size, positional_encoding>>
  /\ UNCHANGED notPe

\* The arguments of a PositionalEncoding about to be constructed.
PeInit ==
  /\ pe_pc = "new"
  /\ max_len \in 0..MaxLen
  /\ emb_size \in 1..MaxHidden
  /\ positional_encoding = None
  /\ x_ids = None
  /\ embedded = None

\* No embedding is under test.
PeIdle ==
  /\ pe_pc = "idle"
  /\ max_len = 0
  /\ emb_size = 0
  /\ positional_encoding = None
  /\ x_ids = None
  /\ embedded = None

\* ------------------------------------------------------------------------
\* Transformer.pred_step
\* ------------------------------------------------------------------------
\* m[:, :-1]
DropLast(m) ==
  [n \in DOMAIN m |-> [t \in 1..(Len(m[n]) - 1) |-> m[n][t]]]

\* m[:, 1:]
DropFirstUnshifted(m) ==
  [n \in DOMAIN m |-> [t \in 1..(Len(m[n]) - 1) |-> m[n][t]]]

DropFirst(m) ==
  [n \in DOMAIN m |-> [t \in 1..(Len(m[n]) - 1) |-> m[n][t + 1]]]

\* nn.CrossEntropyLoss(ignore_index = pad_idx) on labels lab: the places
\* whose label is not pad_idx are the ones that count.
Counted(lab, ignore_index) ==
  {nt \in {<<n, t>> : n \in DOMAIN lab, t \in DOMAIN lab[1]} :
     lab[nt[1]][nt[2]] # ignore_index}

\* Transformer.pred_step(batch), lines 307-316.  The decoder stack, the
\* final linear layer and the permute keep the sequence axis of what the
\* decoder was fed, so the logits have one position per fed token.
PredStep ==
  /\ pred_pc = "batch"
  /\ dec_ids' = DropLast(decoder_input_ids)
  /\ dec_mask' = DropLast(batch_tg_mask)
  /\ logits_len' = Len(DropLast(decoder_input_ids)[1])
  /\ labels' = DropFirst(decoder_input_ids)
  /\ loss_terms' = Counted(DropFirst(decoder_input_ids), pad_idx)
  /\ pred_pc' = "done"
  /\ UNCHANGED <<pad_idx, decoder_input_ids, batch_tg_mask>>
  /\ UNCHANGED notPred

\* A target batch of b sequences padded to length len, with its padding
\* mask: the real token at position t is a token of its own, pad_idx + t,
\* and every pad position holds pad_idx.
BatchIds(m, pad) ==
  [n \in DOMAIN m |-> [t \in DOMAIN m[n] |->
     IF m[n][t] = 1 THEN pad + t ELSE pad]]

PredInit ==
  /\ pred_pc = "batch"
  /\ pad_idx \in 0..1
  /\ \E b \in 1..MaxBatch, len \in 2..(MaxLen + 2) :
       batch_tg_mask \in PadMasks(b, len)
  /\ decoder_input_ids = BatchIds(batch_tg_mask, pad_idx)
  /\ dec_ids = None
  /\ dec_mask = None
  /\ logits_len = 0
  /\ labels = None
  /\ loss_terms = {}

\* No batch is at hand.
PredIdle ==
  /\ pred_pc = "idle"
  /\ pad_idx = 0
  /\ decoder_input_ids = None
  /\ batch_tg_mask = None
  /\ dec_ids = None
  /\ dec_mask = None
  /\ logits_len = 0
  /\ labels = None
  /\ loss_terms = {}

\* ------------------------------------------------------------------------
\* Encoder.forward and Decoder.forward, as far as masks go
\* ------------------------------------------------------------------------
\* The causal mask of Decoder.forward, lines 204-205.
OutputMaskCached(b, len) ==
  IF output_mask # None THEN output_mask ELSE Tril(Ones(b, len, len))

OutputMask(b, len) ==
  Tril(Ones(b, len, len))

\* Arguments of one attention call together with the mask it builds.  The
\* MultiHeadAttention wrapper passes pad_mask and attn_mask through unchanged
\* (lines 135-139); q_len and k_len are the lengths of its Q and K inputs.
AttnCall(b, q_len, k_len, pad, attn) ==
  [q_len |-> q_len, k_len |-> k_len, pad_mask |-> pad, attn_mask |-> attn,
   mask |-> CombinedMask(b, q_len, k_len, pad, attn)]

\* m[:, :len]: the first len positions of every sequence of the batch.
Prefix(m, len) ==
  [n \in DOMAIN m |-> [i \in 1..len |-> m[n][i]]]

\* Encoder.forward(x, src_mask): self-attention with pad_mask = src_mask.
EncoderForward ==
  /\ pc = "encoder"
  /\ enc_attn' = AttnCall(batch, src_len, src_len, src_mask, None)
  /\ pc' = "decoder"
  /\ UNCHANGED <<batch, src_len, src_mask, tgt_len, tgt_mask, tg_len, prev_len,
                 tg_mask, output_mask, dec_self_attn, dec_cross_attn>>
  /\ UNCHANGED notLayer

\* Decoder.forward(x, src_mask, y, tg_mask): x is the encoder output of the
\* batch, y and tg_mask are the first len target positions (pred_step feeds
\* len = tgt_len - 1, step-by-step decoding feeds every prefix in turn).
DecoderForward ==
  /\ pc = "decoder"
  /\ \E len \in 1..tgt_len :
       LET tm == Prefix(tgt_mask, len)
           om == OutputMask(batch, len)
       IN /\ tg_len' = len
          /\ prev_len' = tg_len
          /\ tg_mask' = tm
          /\ output_mask' = om
          /\ dec_self_attn' = AttnCall(batch, len, len, tm, om)
          /\ dec_cross_attn' = AttnCall(batch, len, src_len, None, None)
  /\ UNCHANGED <<pc, batch, src_len, src_mask, tgt_len, tgt_mask, enc_attn>>
  /\ UNCHANGED notLayer

LayerInit ==
  /\ pc = "encoder"
  /\ batch \in 1..MaxBatch
  /\ src_len \in 1..MaxLen
  /\ src_mask \in PadMasks(batch, src_len)
  /\ tgt_len \in 1..MaxLen
  /\ tgt_mask \in PadMasks(batch, tgt_len)
  /\ tg_len = 0
  /\ prev_len = 0
  /\ tg_mask = None
  /\ output_mask = None
  /\ enc_attn = None
  /\ dec_self_attn = None
  /\ dec_cross_attn = None

\* No batch has been handed to the layer pipeline.
LayerIdle ==
  /\ pc = "idle"
  /\ batch = 0
  /\ src_len = 0
  /\ src_mask = None
  /\ tgt_len = 0
  /\ tgt_mask = None
  /\ tg_len = 0
  /\ prev_len = 0
  /\ tg_mask = None
  /\ output_mask = None
  /\ enc_attn = None
  /\ dec_self_attn = None
  /\ dec_cross_attn = None

\* No direct attention call is under way.
SdpaIdle ==
  /\ sdpa_pc = "idle"
  /\ Q = None
  /\ K = None
  /\ pad_mask = None
  /\ attn_mask = None
  /\ mask = None
  /\ attention = None

\* A batch x n_head x len tensor that holds v everywhere.
Const3(b, h, len, v) ==
  [n \in 1..b |-> [x \in 1..h |-> [i \in 1..len |-> v]]]

\* Any 0/1 padding mask of a batch: pad positions anywhere.
AnyPadMasks(b, len) ==
  [1..b -> [1..len -> {0, 1}]]

\* Any 0/1 pairwise mask, the same for every batch element.
AnyAttnMasks(b, q_len, k_len) ==
  {[n \in 1..b |-> a] : a \in [1..q_len -> [1..k_len -> {0, 1}]]}

\* Mask arguments of a direct attention call on sequences of length len:
\* no padding mask or any padding mask, alone or with the causal mask, or
\* any pairwise mask alone.
MaskArgs(b, len) ==
  {<<p, a>> : p \in {None} \cup AnyPadMasks(b, len),
              a \in {None, OutputMask(b, len)}}
  \cup
  {<<None, a>> : a \in AnyAttnMasks(b, len, len)}

\* A direct attention call with all scores equal and any mask arguments.
SdpaInit ==
  /\ sdpa_pc = "call"
  /\ \E b \in 1..MaxBatch, h \in 1..MaxHead, len \in 1..MaxLen :
       /\ Q = Const3(b, h, len, 1)
       /\ K = Const3(b, h, len, 1)
       /\ \E args \in MaskArgs(b, len) :
            /\ pad_mask = args[1]
            /\ attn_mask = args[2]
  /\ mask = None
  /\ attention = None

\* Score values of the keys, in units of 1.0.
KeyValues ==
  {-1, 0, 1}

\* A direct attention call with any score per key (the same keys in every
\* head and batch element, queries of 1.0), under a padding mask of a padded
\* batch alone or with the causal mask.
FillInit ==
  /\ sdpa_pc = "call"
  /\ \E b \in 1..MaxBatch, h \in 1..MaxHead, len \in 1..(MaxLen + 1) :
       /\ Q = Const3(b, h, len, 1)
       /\ \E kv \in [1..len -> KeyValues] : K = [n \in 1..b |-> [x \in 1..h |-> kv]]
       /\ pad_mask \in PadMasks(b, len)
       /\ attn_mask \in {None, OutputMask(b, len)}
  /\ mask = None
  /\ attention = None

Init ==
  /\ LayerInit
  /\ SdpaIdle
  /\ MhaIdle
  /\ PeIdle
  /\ PredIdle

InitSDPA ==
  /\ SdpaInit
  /\ LayerIdle
  /\ MhaIdle
  /\ PeIdle
  /\ PredIdle

InitFill ==
  /\ FillInit
  /\ LayerIdle
  /\ MhaIdle
  /\ PeIdle
  /\ PredIdle

InitMHA ==
  /\ MhaInit
  /\ LayerIdle
  /\ SdpaIdle
  /\ PeIdle
  /\ PredIdle

InitPE ==
  /\ PeInit
  /\ LayerIdle
  /\ SdpaIdle
  /\ MhaIdle
  /\ PredIdle

InitPred ==
  /\ PredInit
  /\ LayerIdle
  /\ SdpaIdle
  /\ MhaIdle
  /\ PeIdle

\* ------------------------------------------------------------------------
\* Properties of the layer pipeline
\* ------------------------------------------------------------------------
\* Number of valid (non-zero) columns of one mask row.
ValidCols(row) ==
  Cardinality({j \in DOMAIN row : row[j] # 0})

\* C1: after every Decoder.forward the causal mask has shape
\* (batch, tg_len, tg_len) for the tg_len of that very call, entry (i, j) is
\* valid iff j <= i, and row i has exactly i valid columns (1-based; i+1 in
\* the 0-based numbering of the source), whatever the previous call's length.
C1_CausalMask ==
  tg_len > 0 =>
    /\ Dims(output_mask) = <<batch, tg_len, tg_len>>
    /\ \A n \in 1..batch : \A i \in 1..tg_len :
          /\ \A j \in 1..tg_len : (output_mask[n][i][j] = 1) <=> (j <= i)
          /\ \A j \in 1..tg_len : output_mask[n][i][j] \in {0, 1}
          /\ ValidCols(output_mask[n][i]) = i
    /\ dec_self_attn.attn_mask = output_mask

\* C1 witness: a Decoder.forward of length 2 or more that follows one of a
\* different length.
C1_Witness ==
  /\ tg_len >= 2
  /\ prev_len > 0
  /\ prev_len # tg_len

\* C4 as claimed: in the encoder-decoder attention no target query position
\* attends to a source position marked pad.
C4_CrossAttnMasksSourcePad ==
  tg_len > 0 =>
    \A n \in 1..batch : \A i \in 1..tg_len : \A j \in 1..src_len :
      src_mask[n][j] = 0 => dec_cross_attn.mask.val[n][i][j] = 0

\* Some position of the sequence is real.
HasReal(pad) ==
  \E i \in DOMAIN pad : pad[i] = 1

\* The rows of one batch element's combined mask that have no valid key.
DeadRows(m) ==
  {i \in DOMAIN m : ValidCols(m[i]) = 0}

\* C10 as claimed: for a padding mask with at least one real position, every
\* query row of the Encoder's and of the Decoder's self-attention mask has a
\* valid key, the rows of pad query positions included.
C10_NoFullyMaskedRow ==
  /\ pc = "decoder" =>
       \A n \in 1..batch :
         HasReal(src_mask[n]) => DeadRows(enc_attn.mask.val[n]) = {}
  /\ tg_len > 0 =>
       \A n \in 1..batch :
         HasReal(tg_mask[n]) => DeadRows(dec_self_attn.mask.val[n]) = {}

\* C10 amended: the fully masked rows of those two attention calls are
\* exactly the rows of the pad query positions; every real query position
\* keeps at least one valid key.
C10_RealRowsHaveValidKey ==
  /\ pc = "decoder" =>
       /\ enc_attn.mask.ok
       /\ \A n \in 1..batch :
            DeadRows(enc_attn.mask.val[n])
              = {i \in 1..src_len : src_mask[n][i] = 0}
  /\ tg_len > 0 =>
       /\ dec_self_attn.mask.ok
       /\ \A n \in 1..batch :
            DeadRows(dec_self_attn.mask.val[n])
              = {i \in 1..tg_len : tg_mask[n][i] = 0}

\* C10 witness: both calls were made on sequences that mix real and pad
\* positions.
C10_Witness ==
  /\ tg_len >= 2
  /\ \E n \in 1..batch :
       /\ HasReal(src_mask[n]) /\ \E i \in 1..src_len : src_mask[n][i] = 0
       /\ HasReal(tg_mask[n]) /\ \E i \in 1..tg_len : tg_mask[n][i] = 0

\* ------------------------------------------------------------------------
\* Properties of ScaledDotProductAttention.forward
\* ------------------------------------------------------------------------
\* C3: entry (i, j) of the combined mask is 1 iff (no padding mask is given
\* or p[i] = 1 and p[j] = 1) and (no attention mask is given or a[i][j] = 1),
\* and 0 otherwise; every head of a batch element is filled through that
\* same mask: a score is replaced by the fill value exactly where it is 0.
C3_CombinedMask ==
  sdpa_pc = "done" =>
    /\ mask.ok
    /\ attention.ok
    /\ Dims(mask.val) = <<Len(Q), Len(Q[1][1]), Len(K[1][1])>>
    /\ \A n \in DOMAIN mask.val : \A i \in DOMAIN mask.val[n] :
         \A j \in DOMAIN mask.val[n][i] :
           LET padOk == pad_mask = None
                          \/ (pad_mask[n][i] = 1 /\ pad_mask[n][j] = 1)
               attnOk == attn_mask = None \/ attn_mask[n][i][j] = 1
           IN /\ mask.val[n][i][j] = (IF padOk /\ attnOk THEN 1 ELSE 0)
              /\ \A h \in DOMAIN Q[n] :
                   attention.val[n][h][i][j]
                     = (IF padOk /\ attnOk
                        THEN Q[n][h][i] * K[n][h][j] * Nano ELSE FillValue)

\* C3 witness: a call with several heads where a padding mask with a pad
\* position and an attention mask that zeroes a pair of real positions were
\* both given.
C3_Witness ==
  /\ sdpa_pc = "done"
  /\ Len(Q[1]) >= 2
  /\ pad_mask # None
  /\ attn_mask # None
  /\ \E n \in DOMAIN pad_mask : \E i, j \in DOMAIN pad_mask[n] :
       /\ pad_mask[n][i] = 1 /\ pad_mask[n][j] = 1 /\ attn_mask[n][i][j] = 0
  /\ \E n \in DOMAIN pad_mask : \E k \in DOMAIN pad_mask[n] :
       pad_mask[n][k] = 0

\* C2 as claimed: in every query row the score substituted for a masked key
\* is strictly lower than the score of every unmasked key, so the masked
\* key never gets a softmax weight at or above that of an unmasked key.
C2_MaskedBelowUnmasked ==
  sdpa_pc = "done" =>
    \A n \in DOMAIN mask.val : \A i \in DOMAIN mask.val[n] :
      \A j, j2 \in DOMAIN mask.val[n][i] :
        (mask.val[n][i][j] = 0 /\ mask.val[n][i][j2] # 0) =>
          \A h \in DOMAIN attention.val[n] :
            ~WeightGeq(attention.val[n][h][i], j, j2)

\* ------------------------------------------------------------------------
\* Properties of MultiHeadAttention
\* ------------------------------------------------------------------------
\* C5: with n_head * d_head = hidden_size, mh_convert yields n_head heads,
\* head h holding features (h-1)*d_head+1 .. h*d_head in order, and the
\* concat step applied to them gives back the tensor that was split,
\* element for element.
C5_HeadRoundTrip ==
  (mha_pc = "roundtrip" /\ n_head * d_head = hidden_size) =>
    /\ mh_heads.ok
    /\ concatenated = q_projection
    /\ \A n \in DOMAIN q_projection :
         /\ Len(mh_heads.val[n]) = n_head
         /\ \A h \in 1..n_head : \A i \in DOMAIN q_projection[n] :
              /\ Len(mh_heads.val[n][h][i]) = d_head
              /\ \A d \in 1..d_head :
                   mh_heads.val[n][h][i][d]
                     = q_projection[n][i][(h - 1) * d_head + d]

\* C5 witness: a round trip through several heads of several features, on a
\* batch of several sequences of several positions.
C5_Witness ==
  /\ mha_pc = "roundtrip"
  /\ n_head * d_head = hidden_size
  /\ n_head >= 2
  /\ d_head >= 2
  /\ Len(q_projection) >= 2
  /\ Len(q_projection[1]) >= 2

\* C6 as claimed: a forward call returns normally only when hidden_size is
\* divisible by n_head and n_head * d_head = hidden_size, and it then
\* works on n_head heads.
C6_BadConfigFails ==
  mha_pc = "done" =>
    /\ hidden_size % n_head = 0
    /\ n_head * d_head = hidden_size
    /\ \A n \in DOMAIN mh_heads.val : Len(mh_heads.val[n]) = n_head

\* ------------------------------------------------------------------------
\* Properties of PositionalEncoding and WordEmbedding
\* ------------------------------------------------------------------------
\* C7 as claimed: constructing a PositionalEncoding with an odd hidden_size
\* fails, for every max_len >= 0.
C7_OddHiddenRejected ==
  (pe_pc \notin {"idle", "new"} /\ emb_size % 2 = 1) => pe_pc = "ctor_error"

\* C8 as claimed: a WordEmbedding.forward that returns has one position per
\* input position and added table row p to the token at p, and a call with
\* seq_len above max_len fails.
C8_RowPerPosition ==
  /\ pe_pc = "done" =>
       \A n \in DOMAIN x_ids :
         /\ Len(x_ids[n]) <= max_len
         /\ Len(embedded[n]) = Len(x_ids[n])
         /\ \A p \in DOMAIN x_ids[n] :
              embedded[n][p]
                = [tok |-> x_ids[n][p], row |-> positional_encoding[p]]
  /\ (pe_pc \in {"done", "fwd_error"} /\ Len(x_ids[1]) > max_len) =>
       pe_pc = "fwd_error"

\* ------------------------------------------------------------------------
\* Properties of Transformer.pred_step
\* ------------------------------------------------------------------------
\* C9: for a target batch of length tg_len >= 2 the decoder is fed tokens
\* 1..tg_len-1 and the padding mask of those positions, the logits have
\* tg_len-1 positions, the label at position t is target token t+1, and the
\* loss counts exactly the places whose label is not pad_idx.
C9_TeacherForcingShift ==
  pred_pc = "done" =>
    \A n \in DOMAIN decoder_input_ids :
      LET len == Len(decoder_input_ids[n])
      IN /\ Len(dec_ids[n]) = len - 1
         /\ Len(dec_mask[n]) = len - 1
         /\ Len(labels[n]) = len - 1
         /\ logits_len = len - 1
         /\ \A t \in 1..(len - 1) :
              /\ dec_ids[n][t] = decoder_input_ids[n][t]
              /\ dec_mask[n][t] = batch_tg_mask[n][t]
              /\ labels[n][t] = decoder_input_ids[n][t + 1]
              /\ (<<n, t>> \in loss_terms)
                   <=> (decoder_input_ids[n][t + 1] # pad_idx)
         /\ \A nt \in loss_terms : nt[2] \in 1..(len - 1)

\* C9 witness: a pred_step on a batch of several sequences of three or more
\* positions, one of them ending in pad.
C9_Witness ==
  /\ pred_pc = "done"
  /\ Len(decoder_input_ids) >= 2
  /\ Len(decoder_input_ids[1]) >= 3
  /\ \E n \in DOMAIN labels : \E t, u \in DOMAIN labels[n] :
       labels[n][t] # pad_idx /\ labels[n][u] = pad_idx

Next ==
  \/ EncoderForward
  \/ DecoderForward

Spec ==
  Init /\ [][Next]_vars

\* Direct calls of ScaledDotProductAttention.forward with any masks.
SpecSDPA ==
  InitSDPA /\ [][SDPAForward]_vars

\* Direct calls of ScaledDotProductAttention.forward with any key scores.
SpecFill ==
  InitFill /\ [][SDPAForward]_vars

\* A MultiHeadAttention of any configuration, then one call.
NextMHA ==
  \/ MHAForward
  \/ HeadRoundTrip

SpecMHA ==
  InitMHA /\ [][NextMHA]_vars

\* A PositionalEncoding of any size, then calls of WordEmbedding.forward.
NextPE ==
  \/ PositionalEncodingInit
  \/ WordEmbeddingForward

SpecPE ==
  InitPE /\ [][NextPE]_vars

\* One pred_step on any padded target batch.
SpecPred ==
  InitPred /\ [][PredStep]_vars

====
